---- MODULE Spec2Model ----
(***************************************************************************)
(* Model of the data-quality checker: load_data and detect_anomalies of    *)
(* data_processor.py, as driven by app.py, and the reading of an anomaly   *)
(* record by gemini_explainer.py.                                          *)
(*                                                                         *)
(* A cell of a DataFrame is a record [kind, num, str]: kind "nan" is an    *)
(* absent cell, "num" a number, "str" a string held as a sequence of       *)
(* one-character strings.  Row indices are pandas' RangeIndex labels       *)
(* 0..N-1; TLA+ sequences are 1-based, so row r sits at position r + 1.    *)
(***************************************************************************)
EXTENDS Integers, Sequences, FiniteSets, TLC

\* ------------------------------------------------------------- bounds
\* columns * enumerated rows of a dataset is at most MaxCells
MaxCells == 4
\* rows of a fixed, well-formed value that may follow the enumerated rows
PadRows == 62
\* decision_function scores are drawn from 0..MaxScore
MaxScore == 1

\* ------------------------------------------------------------- cells
NaN == [kind |-> "nan", num |-> 0, str |-> <<>>]
Num(n) == [kind |-> "num", num |-> n, str |-> <<>>]
Str(s) == [kind |-> "str", num |-> 0, str |-> s]

GoodEmail == <<"a", "@", "b", ".", "c", "o">>
BadEmail == <<"a", "@", "b", ".", "c">>

NumCells == {NaN, Num(1), Num(2)}
StrCells == {NaN, Str(GoodEmail), Str(BadEmail)}
NumFill == Num(2)
StrFill == Str(GoodEmail)

ColumnNames == {"age", "email"}
Headers == {<<"age">>, <<"email">>, <<"age", "email">>, <<"email", "age">>}

\* ------------------------------------------------------------- helpers
Min(a, b) == IF a < b THEN a ELSE b

\* the slip of keeping the whole list where s[:n] or .head(n) is meant
FirstNUncut(s, n) == s

\* s[:n] and .head(n)
FirstN(s, n) == SubSeq(s, 1, Min(n, Len(s)))

\* the sequence 0, 1, ..., n-1 (a RangeIndex)
RangeIndex(n) == [k \in 1..n |-> k - 1]

\* ------------------------------------------------------------- DataFrame
NoneDf == [columns |-> <<>>, data |-> <<>>]

ColIndex(df, col) == CHOOSE k \in 1..Len(df.columns) : df.columns[k] = col

\* A column is held run-length encoded: the cells of its first rows, then
\* `repeat` further rows that all hold the cell `fill`.
Cells(column) == column.head \o [k \in 1..column.repeat |-> column.fill]

\* df[col]
Series(df, col) == Cells(df.data[ColIndex(df, col)])

\* len(df)
NumRows(df) == IF Len(df.data) = 0 THEN 0 ELSE Len(df.data[1].head) + df.data[1].repeat

\* cell.isnull()
isnull(cell) == cell.kind = "nan"

\* df[df[col].isnull()].index.tolist()
NullIndex(df, col) ==
    LET series == Series(df, col)
    IN  SelectSeq(RangeIndex(Len(series)), LAMBDA r : isnull(series[r + 1]))

\* df[col].dropna().index.tolist()
DropnaIndex(df, col) ==
    LET series == Series(df, col)
    IN  SelectSeq(RangeIndex(Len(series)), LAMBDA r : ~isnull(series[r + 1]))

\* df[col].dropna().values
Dropna(df, col) == SelectSeq(Series(df, col), LAMBDA c : ~isnull(c))

\* df[col].nunique(): distinct non-absent values
nunique(df, col) ==
    LET values == Dropna(df, col)
    IN  Cardinality({values[k] : k \in 1..Len(values)})

\* the dtype read_csv infers: a column holding a string is object, any other
\* column with rows (numbers and absent cells only) is numeric; without rows
\* there is nothing to infer a number from
IsNumericDtype(df, col) ==
    LET series == Series(df, col)
    IN  /\ Len(series) > 0
        /\ \A k \in 1..Len(series) : series[k].kind # "str"

\* a numeric column holding an absent cell is float64, else int64
IsFloatDtype(df, col) ==
    LET series == Series(df, col)
    IN  /\ IsNumericDtype(df, col)
        /\ \E k \in 1..Len(series) : isnull(series[k])

\* ------------------------------------------------------------- strings
Digits == {"0", "1", "2", "3", "4", "5", "6", "7", "8", "9"}
LowerLetters ==
    {"a", "b", "c", "d", "e", "f", "g", "h", "i", "j", "k", "l", "m",
     "n", "o", "p", "q", "r", "s", "t", "u", "v", "w", "x", "y", "z"}
UpperLetters ==
    {"A", "B", "C", "D", "E", "F", "G", "H", "I", "J", "K", "L", "M",
     "N", "O", "P", "Q", "R", "S", "T", "U", "V", "W", "X", "Y", "Z"}
Letters == LowerLetters \cup UpperLetters
\* [a-zA-Z0-9._%+-]
LocalChars == Letters \cup Digits \cup {".", "_", "%", "+", "-"}
\* [a-zA-Z0-9.-]
DomainChars == Letters \cup Digits \cup {".", "-"}

\* re.search(r'^[a-zA-Z0-9._%+-]+@[a-zA-Z0-9.-]+\.[a-zA-Z]{2,}$', s)
MatchesEmail(s) ==
    \E at \in 1..Len(s), dot \in 1..Len(s) :
        /\ at > 1
        /\ s[at] = "@"
        /\ \A k \in 1..(at - 1) : s[k] \in LocalChars
        /\ dot > at + 1
        /\ s[dot] = "."
        /\ \A k \in (at + 1)..(dot - 1) : s[k] \in DomainChars
        /\ Len(s) - dot >= 2
        /\ \A k \in (dot + 1)..Len(s) : s[k] \in Letters

DigitChar(n) == <<"0", "1", "2", "3", "4", "5", "6", "7", "8", "9">>[n + 1]

\* str(cell) as .astype(str) gives it: an absent cell becomes the text nan, an
\* int64 1 the text 1, a float64 1.0 the text 1.0, a string stays as it is
astype_str(cell, isFloat) ==
    CASE cell.kind = "nan" -> <<"n", "a", "n">>
      [] cell.kind = "num" ->
            IF isFloat THEN <<DigitChar(cell.num), ".", "0">> ELSE <<DigitChar(cell.num)>>
      [] OTHER -> cell.str

\* one element of ~df['email'].astype(str).str.contains(pattern, na=False)
InvalidEmailCell(cell, isFloat) == ~MatchesEmail(astype_str(cell, isFloat))

\* invalid_emails.index.tolist()
InvalidEmailIndex(df) ==
    LET series == Series(df, "email")
        isFloat == IsFloatDtype(df, "email")
    IN  SelectSeq(RangeIndex(Len(series)),
                  LAMBDA r : InvalidEmailCell(series[r + 1], isFloat))

\* ------------------------------------------------------------- numbers
\* f"{(missing_count / len(df)) * 100:.2f}" in hundredths of a percent, rounded
\* half to even; a zero divisor gives numpy's nan, written -1
missing_percentage(missing_count, len_df) ==
    IF len_df = 0 THEN -1
    ELSE LET q == (missing_count * 10000) \div len_df
             r == (missing_count * 10000) % len_df
         IN  IF 2 * r > len_df \/ (2 * r = len_df /\ q % 2 = 1) THEN q + 1 ELSE q

\* the k-th smallest (k from 0) element of a sequence of integers
KthSmallest(a, k) ==
    CHOOSE x \in {a[j] : j \in 1..Len(a)} :
        /\ Cardinality({j \in 1..Len(a) : a[j] <= x}) >= k + 1
        /\ Cardinality({j \in 1..Len(a) : a[j] < x}) <= k

\* 100 * np.percentile(a, q), linear interpolation between the order statistics
\* around the virtual index (q / 100) * (len(a) - 1)
\* (exact arithmetic; the sample counts of the model, 0..MaxCells and
\* PadRows..PadRows + MaxCells, keep clear of 21, 41, 61 and 81, where the virtual
\* index is an integer and numpy's floating point decides which side it falls)
np_percentile(a, q) ==
    LET v == q * (Len(a) - 1)
        lo == v \div 100
        hi == Min(lo + 1, Len(a) - 1)
        below == KthSmallest(a, lo)
        above == KthSmallest(a, hi)
    IN  100 * below + (v % 100) * (above - below)

\* ------------------------------------------------------------- detectors
\* the slip of anomalies.insert(0, record) for anomalies.append(record)
InsertAnomalyFirst(anoms, rec) == <<rec>> \o anoms

\* anomalies.append(record)
AppendAnomaly(anoms, rec) == Append(anoms, rec)

\* the slip of dropping the guard "if df[col].isnull().any()"
AnyNullUnguarded(df, col) == TRUE

\* df[col].isnull().any()
AnyNull(df, col) ==
    LET series == Series(df, col)
    IN  \E k \in 1..Len(series) : isnull(series[k])

\* the record of the missing-value check for one column
MissingRecord(df, col) ==
    LET null_index == NullIndex(df, col)
        missing_count == Len(null_index)
    IN  [type |-> "Missing Values",
         column |-> col,
         description |->
             [missing_count |-> missing_count,
              missing_percentage |-> missing_percentage(missing_count, NumRows(df)),
              text |-> "missing values found."],
         sample_values |-> FirstN(null_index, 3)]

\* df.select_dtypes(include=np.number).columns
select_dtypes(df) == SelectSeq(df.columns, LAMBDA c : IsNumericDtype(df, c))

\* the slip of testing df[col].nunique() > 0
HasAnyValue(df, col) == nunique(df, col) > 0

\* df[col].nunique() > 1
HasVariation(df, col) == nunique(df, col) > 1

\* len(temp_col_data) > 1
EnoughSamples(df, col) == Len(Dropna(df, col)) > 1

\* the values decision_function may score: those of the fitted samples
FittedValues(df, col) ==
    LET values == Dropna(df, col)
    IN  {values[k] : k \in 1..Len(values)}

\* iso_forest.decision_function(temp_col_data): the score of a sample is a
\* function f of its value
decision_function(df, col, f) ==
    LET values == Dropna(df, col)
    IN  [k \in 1..Len(values) |-> f[values[k]]]

\* the slip of comparing with <= for <
AtOrBelowPercentile(score, threshold) == 100 * score <= threshold

\* score < np.percentile(outlier_scores, 5), both sides times 100
BelowPercentile(score, threshold) == 100 * score < threshold

\* np.where(outlier_scores < np.percentile(outlier_scores, 5))[0]
OutlierIndices(outlier_scores) ==
    LET threshold == np_percentile(outlier_scores, 5)
    IN  SelectSeq(RangeIndex(Len(outlier_scores)),
                  LAMBDA p : BelowPercentile(outlier_scores[p + 1], threshold))

\* the slip of taking np.where's positions in the dropna()ed array for row labels
PositionsAsIndices(df, col, outlier_indices) == outlier_indices

\* df[col].dropna().iloc[outlier_indices].index.tolist()
OriginalIndices(df, col, outlier_indices) ==
    LET index == DropnaIndex(df, col)
    IN  [k \in 1..Len(outlier_indices) |-> index[outlier_indices[k] + 1]]

\* df.loc[index_labels, col]
Loc(df, index_labels, col) ==
    LET series == Series(df, col)
    IN  [k \in 1..Len(index_labels) |-> series[index_labels[k] + 1]]

\* the record of the outlier check for one column
OutlierRecord(df, col, outlier_indices) ==
    LET original_indices == OriginalIndices(df, col, outlier_indices)
    IN  [type |-> "Outlier (Numerical)",
         column |-> col,
         description |->
             [text |-> "Potential outliers detected using Isolation Forest. Score below 5th percentile."],
         sample_values |-> FirstN(Loc(df, original_indices, col), 3),
         original_indices |-> FirstN(original_indices, 3)]

\* the record of the email check
EmailRecord(df) ==
    LET invalid_index == InvalidEmailIndex(df)
    IN  [type |-> "Invalid Format (Email)",
         column |-> "email",
         description |->
             [count |-> Len(invalid_index),
              text |-> "rows with invalid email format found."],
         sample_values |-> FirstN(Loc(df, invalid_index, "email"), 3),
         original_indices |-> FirstN(invalid_index, 3)]

\* anomaly_data.get(key, 'N/A'): a list when the record has the key
HasKey(anomaly_data, key) == key \in DOMAIN anomaly_data

\* ------------------------------------------------------------- load_data
\* what pd.read_csv does with the source inside load_data's try: FileNotFoundError
\* is caught and becomes None, any other error leaves load_data as raised
load_data(src) ==
    CASE src.kind = "csv" -> [outcome |-> "df", df |-> src.table, error |-> "none"]
      [] src.kind = "not_found" -> [outcome |-> "None", df |-> NoneDf, error |-> "none"]
      [] src.kind = "unparsable" -> [outcome |-> "raise", df |-> NoneDf, error |-> "ParserError"]
      [] src.kind = "empty" -> [outcome |-> "raise", df |-> NoneDf, error |-> "EmptyDataError"]

\* ------------------------------------------------------------- state
VARIABLES
    source,     \* the uploaded source: its kind and, for a csv, the table in it
    df,         \* what load_data returned (NoneDf before the load and for None)
    pc,         \* start, missing, outliers, email, done, stopped, raised
    i,          \* position of the running for loop in its column list
    anomalies,  \* detect_anomalies' list
    fits,       \* per column: what the IsolationForest block did and computed
    log,        \* columns print()ed as "Could not run IsolationForest on"
    error       \* the exception that left the script, if any

vars == <<source, df, pc, i, anomalies, fits, log, error>>

NoFit == [status |-> "none", scores |-> <<>>, outlier_indices |-> <<>>]

Scores == 0..MaxScore

\* a column of r enumerated cells followed by pad cells of a well-formed value
ColumnsOf(r, pad) ==
    {[head |-> prefix, fill |-> IF pad = 0 THEN NaN ELSE NumFill, repeat |-> pad] :
        prefix \in [1..r -> NumCells]}
        \cup {[head |-> prefix, fill |-> IF pad = 0 THEN NaN ELSE StrFill, repeat |-> pad] :
                  prefix \in [1..r -> StrCells]}

\* the tables read_csv can give: a header row and rows aligned under it
Tables ==
    UNION {
        {[columns |-> h, data |-> d] : d \in [1..Len(h) -> ColumnsOf(r, pad)]} :
            <<h, r, pad>> \in {t \in Headers \X (0..MaxCells) \X {0, PadRows} :
                                  Len(t[1]) * t[2] <= MaxCells}}

Sources ==
    {[kind |-> "csv", table |-> t] : t \in Tables}
        \cup {[kind |-> k, table |-> NoneDf] : k \in {"not_found", "unparsable", "empty"}}

Init ==
    /\ source \in Sources
    /\ df = NoneDf
    /\ pc = "start"
    /\ i = 1
    /\ anomalies = <<>>
    /\ fits = [c \in ColumnNames |-> NoFit]
    /\ log = {}
    /\ error = "none"

\* ------------------------------------------------------------- app.py
\* df = load_data(uploaded_file) gave a DataFrame: detect_anomalies(df) starts
LoadOk ==
    /\ pc = "start"
    /\ load_data(source).outcome = "df"
    /\ df' = load_data(source).df
    /\ pc' = "missing"
    /\ i' = 1
    /\ UNCHANGED <<source, anomalies, fits, log, error>>

\* df is None: st.error("Failed to load data. ...") and st.stop()
LoadNone ==
    /\ pc = "start"
    /\ load_data(source).outcome = "None"
    /\ pc' = "stopped"
    /\ UNCHANGED <<source, df, i, anomalies, fits, log, error>>

\* read_csv raised something load_data does not catch: the script run ends with it
LoadRaise ==
    /\ pc = "start"
    /\ load_data(source).outcome = "raise"
    /\ pc' = "raised"
    /\ error' = load_data(source).error
    /\ UNCHANGED <<source, df, i, anomalies, fits, log>>

\* ------------------------------------------------------------- detect_anomalies
\* one iteration of "for col in df.columns" (1. Missing Values)
MissingValues ==
    /\ pc = "missing"
    /\ i <= Len(df.columns)
    /\ LET col == df.columns[i]
       IN  anomalies' = IF AnyNull(df, col)
                          THEN AppendAnomaly(anomalies, MissingRecord(df, col))
                          ELSE anomalies
    /\ i' = i + 1
    /\ UNCHANGED <<source, df, pc, fits, log, error>>

\* the loop over df.columns is exhausted
MissingValuesEnd ==
    /\ pc = "missing"
    /\ i > Len(df.columns)
    /\ pc' = "outliers"
    /\ i' = 1
    /\ UNCHANGED <<source, df, anomalies, fits, log, error>>

\* whether the IsolationForest block is entered for the column
Fittable(df_, col) == HasVariation(df_, col) /\ EnoughSamples(df_, col)

\* one iteration of "for col in numerical_cols" that skips the column
OutlierSkip ==
    /\ pc = "outliers"
    /\ i <= Len(select_dtypes(df))
    /\ ~Fittable(df, select_dtypes(df)[i])
    /\ i' = i + 1
    /\ UNCHANGED <<source, df, pc, anomalies, fits, log, error>>

\* one iteration in which fit and decision_function return scores
OutlierFit ==
    /\ pc = "outliers"
    /\ i <= Len(select_dtypes(df))
    /\ LET col == select_dtypes(df)[i]
       IN  /\ Fittable(df, col)
           /\ \E f \in [FittedValues(df, col) -> Scores] :
                LET outlier_scores == decision_function(df, col, f)
                    outlier_indices == OutlierIndices(outlier_scores)
                IN  /\ anomalies' =
                          IF Len(outlier_indices) > 0
                          THEN AppendAnomaly(anomalies, OutlierRecord(df, col, outlier_indices))
                          ELSE anomalies
                    /\ fits' = [fits EXCEPT ![col] =
                                   [status |-> "scored",
                                    scores |-> outlier_scores,
                                    outlier_indices |-> outlier_indices]]
    /\ i' = i + 1
    /\ UNCHANGED <<source, df, pc, log, error>>

\* one iteration in which the try block raises ValueError: printed, skipped
OutlierValueError ==
    /\ pc = "outliers"
    /\ i <= Len(select_dtypes(df))
    /\ LET col == select_dtypes(df)[i]
       IN  /\ Fittable(df, col)
           /\ log' = log \cup {col}
           /\ fits' = [fits EXCEPT ![col] = [NoFit EXCEPT !.status = "ValueError"]]
    /\ i' = i + 1
    /\ UNCHANGED <<source, df, pc, anomalies, error>>

\* one iteration in which the try block raises an exception that is no
\* ValueError: except ValueError lets it through and detect_anomalies ends
OutlierOtherError ==
    /\ pc = "outliers"
    /\ i <= Len(select_dtypes(df))
    /\ LET col == select_dtypes(df)[i]
       IN  /\ Fittable(df, col)
           /\ fits' = [fits EXCEPT ![col] = [NoFit EXCEPT !.status = "raised"]]
    /\ pc' = "raised"
    /\ error' = "Exception"
    /\ UNCHANGED <<source, df, i, anomalies, log>>

\* the loop over numerical_cols is exhausted
OutlierEnd ==
    /\ pc = "outliers"
    /\ i > Len(select_dtypes(df))
    /\ pc' = "email"
    /\ UNCHANGED <<source, df, i, anomalies, fits, log, error>>

\* 3. Invalid Email Format, and return anomalies
InvalidEmail ==
    /\ pc = "email"
    /\ anomalies' = IF "email" \in {df.columns[k] : k \in 1..Len(df.columns)}
                        /\ Len(InvalidEmailIndex(df)) > 0
                    THEN AppendAnomaly(anomalies, EmailRecord(df))
                    ELSE anomalies
    /\ pc' = "done"
    /\ UNCHANGED <<source, df, i, fits, log, error>>

Next ==
    \/ LoadOk
    \/ LoadNone
    \/ LoadRaise
    \/ MissingValues
    \/ MissingValuesEnd
    \/ OutlierSkip
    \/ OutlierFit
    \/ OutlierValueError
    \/ OutlierOtherError
    \/ OutlierEnd
    \/ InvalidEmail

Spec == Init /\ [][Next]_vars

\* ------------------------------------------------------------- properties
\* What the properties below say of a dataset is stated from its cells, not
\* through the operators of the detectors.

ColumnSet == {df.columns[k] : k \in 1..Len(df.columns)}

AbsentRows(col) ==
    LET series == Series(df, col)
    IN  {r \in 0..(Len(series) - 1) : series[r + 1] = NaN}

PresentRows(col) ==
    LET series == Series(df, col)
    IN  {r \in 0..(Len(series) - 1) : series[r + 1] # NaN}

\* L lists, in ascending order, the n smallest members of the set S of row
\* indices (all of S when it has fewer)
IsFirstRows(L, S, n) ==
    /\ Len(L) = (IF Cardinality(S) < n THEN Cardinality(S) ELSE n)
    /\ \A k \in 1..Len(L) : L[k] \in S
    /\ \A k \in 1..(Len(L) - 1) : L[k] < L[k + 1]
    /\ \A x \in S : (\A k \in 1..Len(L) : L[k] # x) => (\A k \in 1..Len(L) : L[k] < x)

\* V lists the cells of the column at the rows L lists
AreValuesAt(V, L, col) ==
    LET series == Series(df, col)
    IN  /\ Len(V) = Len(L)
        /\ \A k \in 1..Len(V) : V[k] = series[L[k] + 1]

\* the rows whose score, as fits recorded it, is strictly below the 5th
\* percentile of the column's scores; the p-th score is that of the p-th present
\* row of the column
FlaggedRows(col) ==
    LET scores == fits[col].scores
        threshold == np_percentile(scores, 5)
        series == Series(df, col)
        present == SelectSeq([k \in 1..Len(series) |-> k - 1],
                             LAMBDA r : series[r + 1] # NaN)
    IN  {present[p] : p \in {p \in 1..Len(scores) : 100 * scores[p] < threshold}}

\* the rows of the email column whose text fails the pattern, absent cells
\* (the text nan) among them
UnmatchedEmailRows ==
    LET series == Series(df, "email")
        isFloat == IsFloatDtype(df, "email")
    IN  {r \in 0..(Len(series) - 1) : ~MatchesEmail(astype_str(series[r + 1], isFloat))}

\* the rows a record's detector matched in the record's column
MatchedRows(a) ==
    CASE a.type = "Missing Values" -> AbsentRows(a.column)
      [] a.type = "Outlier (Numerical)" -> FlaggedRows(a.column)
      [] OTHER -> UnmatchedEmailRows

RecordsOf(type, col) ==
    {k \in 1..Len(anomalies) : anomalies[k].type = type /\ anomalies[k].column = col}

C2_MissingRecordAsClaimed ==
    pc \in {"outliers", "email", "done"} =>
        \A col \in ColumnSet :
            /\ Cardinality(RecordsOf("Missing Values", col))
                   = IF AbsentRows(col) = {} THEN 0 ELSE 1
            /\ \A k \in RecordsOf("Missing Values", col) :
                   LET a == anomalies[k]
                       n == Cardinality(AbsentRows(col))
                   IN  /\ a.description.missing_count = n
                       /\ 2 * (a.description.missing_percentage * NumRows(df) - n * 10000)
                              <= NumRows(df)
                       /\ 2 * (n * 10000 - a.description.missing_percentage * NumRows(df))
                              <= NumRows(df)
                       /\ HasKey(a, "original_indices")
                       /\ IsFirstRows(a.original_indices, AbsentRows(col), 3)

\* the non-absent cells of the email column that fail the pattern
EmailViolationRows ==
    {r \in PresentRows("email") : r \in UnmatchedEmailRows}

\* C3 (as claimed): the violations of an email column are its non-absent cells
\* that fail the pattern; an Invalid Format record is in the returned report iff
\* there is one, gives their number, and samples the first 3 of them with their
\* row indices.
C3_EmailRecordAsClaimed ==
    (pc = "done" /\ "email" \in ColumnSet) =>
        /\ (RecordsOf("Invalid Format (Email)", "email") # {}) <=> (EmailViolationRows # {})
        /\ \A k \in RecordsOf("Invalid Format (Email)", "email") :
               LET a == anomalies[k]
               IN  /\ a.description.count = Cardinality(EmailViolationRows)
                   /\ IsFirstRows(a.original_indices, EmailViolationRows, 3)
                   /\ AreValuesAt(a.sample_values, a.original_indices, "email")

\* C4 (as claimed): once the dataset has loaded, no failure of a detector on a
\* column ends the run without a report: detect_anomalies goes on and returns.
C4_NoFailureAbortsAsClaimed ==
    source.kind = "csv" => pc # "raised"

\* C5 (as claimed): a source that is not found, unparsable or empty ends the
\* run in the one load-failure outcome (load_data gives None, the script
\* reports it and stops), with no report.
C5_LoadFailureAsClaimed ==
    (source.kind # "csv" /\ pc # "start") =>
        /\ pc = "stopped"
        /\ error = "none"
        /\ anomalies = <<>>

\* C6: the row indices of an outlier record are the dataset row indices of the
\* first 3 flagged samples in ascending row order, and its sample values are
\* the column's cells at exactly those rows.
C6_OutlierSamplesAtOriginalRows ==
    \A k \in 1..Len(anomalies) :
        LET a == anomalies[k]
        IN  a.type = "Outlier (Numerical)" =>
                /\ IsFirstRows(a.original_indices, FlaggedRows(a.column), 3)
                /\ AreValuesAt(a.sample_values, a.original_indices, a.column)
                /\ \A j \in 1..Len(a.sample_values) : a.sample_values[j] # NaN

\* an outlier record of 3 samples on a column with an absent cell above a
\* flagged one, so that row index and position among the samples differ
C6_Witness ==
    \E k \in 1..Len(anomalies) :
        LET a == anomalies[k]
        IN  /\ a.type = "Outlier (Numerical)"
            /\ Len(a.original_indices) = 3
            /\ \E r \in AbsentRows(a.column) : r < a.original_indices[1]

\* the place of a detector in the order the detectors run
TypeRank(type) ==
    CASE type = "Missing Values" -> 1
      [] type = "Outlier (Numerical)" -> 2
      [] OTHER -> 3

\* whether the missing-value pass has already dealt with the column
MissingPassed(col) ==
    \/ pc \in {"outliers", "email", "done", "raised"}
    \/ pc = "missing" /\ ColIndex(df, col) < i

\* whether the detector has, so far, a finding to report for the column
Found(type, col) ==
    CASE type = "Missing Values" -> MissingPassed(col) /\ AbsentRows(col) # {}
      [] type = "Outlier (Numerical)" ->
            fits[col].status = "scored" /\ FlaggedRows(col) # {}
      [] OTHER -> pc = "done" /\ col = "email" /\ UnmatchedEmailRows # {}

\* C7: the report lists the Missing Values records, then the outlier records,
\* then the email record; within a detector in the order of the dataset's
\* columns; and it holds one record for every finding made so far, also when
\* two detectors report on the same column.
C7_ReportOrder ==
    /\ \A p, q \in 1..Len(anomalies) :
           p < q =>
               \/ TypeRank(anomalies[p].type) < TypeRank(anomalies[q].type)
               \/ /\ anomalies[p].type = anomalies[q].type
                  /\ ColIndex(df, anomalies[p].column) < ColIndex(df, anomalies[q].column)
    /\ \A col \in ColumnSet :
           \A type \in {"Missing Values", "Outlier (Numerical)", "Invalid Format (Email)"} :
               Cardinality(RecordsOf(type, col)) = IF Found(type, col) THEN 1 ELSE 0

\* a returned report with records of all three detectors, two detectors on
\* one column and one detector on two columns
C7_Witness ==
    /\ pc = "done"
    /\ \E col \in ColumnSet :
           /\ RecordsOf("Missing Values", col) # {}
           /\ RecordsOf("Outlier (Numerical)", col) # {}
    /\ \A col \in ColumnSet : RecordsOf("Outlier (Numerical)", col) # {}
    /\ Len(df.columns) = 2
    /\ RecordsOf("Invalid Format (Email)", "email") # {}

\* the distinct non-absent cells of a column
DistinctPresent(col) ==
    LET series == Series(df, col)
    IN  {series[r + 1] : r \in PresentRows(col)}

\* a column read as numbers: it has rows and none of its cells is a string
IsNumericColumn(col) ==
    LET series == Series(df, col)
    IN  /\ Len(series) > 0
        /\ \A r \in 0..(Len(series) - 1) : series[r + 1].kind \in {"num", "nan"}

\* C8: an outlier record is emitted for a column only if the column is numeric
\* and has more than one distinct non-absent value, hence at least 2 samples;
\* any other column (text, constant, fewer than 2 samples) yields no outlier
\* record and no failure, logged or raised.
C8_OutlierOnlyWithVariation ==
    \A col \in ColumnSet :
        /\ RecordsOf("Outlier (Numerical)", col) # {} =>
               /\ IsNumericColumn(col)
               /\ Cardinality(DistinctPresent(col)) > 1
               /\ Cardinality(PresentRows(col)) >= 2
        /\ ~(IsNumericColumn(col) /\ Cardinality(DistinctPresent(col)) > 1) =>
               /\ RecordsOf("Outlier (Numerical)", col) = {}
               /\ fits[col].status = "none"
               /\ col \notin log

\* a returned report of a dataset with a numeric column of 2 or more equal
\* samples, skipped, beside a column that got an outlier record
C8_Witness ==
    /\ pc = "done"
    /\ \E col \in ColumnSet :
           /\ IsNumericColumn(col)
           /\ Cardinality(DistinctPresent(col)) = 1
           /\ Cardinality(PresentRows(col)) >= 2
           /\ RecordsOf("Outlier (Numerical)", col) = {}
    /\ \E col \in ColumnSet : RecordsOf("Outlier (Numerical)", col) # {}

\* no detector has anything to find in the dataset
NothingToFind ==
    /\ \A col \in ColumnSet :
           /\ AbsentRows(col) = {}
           /\ fits[col].status = "scored" => FlaggedRows(col) = {}
    /\ "email" \in ColumnSet => UnmatchedEmailRows = {}

\* C9: a dataset without rows never ends detect_anomalies in an exception, has
\* a next step until the report is returned, and its report is empty; no
\* missing-value percentage is ever the result of a division by zero rows; and
\* the report returned for a dataset in which no detector finds anything is
\* empty.
C9_EmptyReport ==
    /\ (source.kind = "csv" /\ NumRows(source.table) = 0) =>
           /\ pc # "raised"
           /\ pc = "done" \/ ENABLED Next
           /\ anomalies = <<>>
    /\ \A k \in 1..Len(anomalies) :
           anomalies[k].type = "Missing Values" =>
               anomalies[k].description.missing_percentage >= 0
    /\ (pc = "done" /\ NothingToFind) => anomalies = <<>>

\* the empty report returned for a header-only dataset
C9_Witness ==
    /\ pc = "done"
    /\ Len(df.columns) > 0
    /\ NumRows(df) = 0
    /\ anomalies = <<>>

\* C10: for a column whose samples were scored, the flagged samples are exactly
\* those whose score is strictly below the 5th percentile of the column's
\* scores, and the column has an outlier record iff there is one; no flagged
\* sample has a score equal to the percentile, and there is no record when all
\* scores are equal or when the percentile equals the lowest score.
C10_StrictlyBelowPercentile ==
    \A col \in ColumnSet :
        fits[col].status = "scored" =>
            LET scores == fits[col].scores
                threshold == np_percentile(scores, 5)
                flagged == {p \in 0..(Len(scores) - 1) : 100 * scores[p + 1] < threshold}
                outlier_indices == fits[col].outlier_indices
                emitted == RecordsOf("Outlier (Numerical)", col) # {}
            IN  /\ IsFirstRows(outlier_indices, flagged, Len(scores))
                /\ emitted <=> flagged # {}
                /\ \A k \in 1..Len(outlier_indices) :
                       100 * scores[outlier_indices[k] + 1] # threshold
                /\ (\A p \in 1..Len(scores) : scores[p] = scores[1]) => ~emitted
                /\ (\A p \in 1..Len(scores) : 100 * scores[p] >= threshold) => ~emitted

\* an emitted outlier record on a column where some sample's score equals the
\* percentile and is not flagged
C10_Witness ==
    \E col \in ColumnSet :
        /\ fits[col].status = "scored"
        /\ RecordsOf("Outlier (Numerical)", col) # {}
        /\ \E p \in 1..Len(fits[col].scores) :
               /\ 100 * fits[col].scores[p] = np_percentile(fits[col].scores, 5)
               /\ \A k \in 1..Len(fits[col].outlier_indices) :
                      fits[col].outlier_indices[k] # p - 1
====
